---- MODULE Spec2Model ----
(***************************************************************************)
(* Model of cp.py: copy(), copy_file(), copy_directory() and dump() over   *)
(* an explicit filesystem.                                                 *)
(*                                                                         *)
(* A path is a sequence of names (<<>> is the top directory).  The         *)
(* filesystem is a function from the existing paths to nodes.  A node of   *)
(* kind "other" stands for an entry for which Path.is_file() and           *)
(* Path.is_dir() are both False while Path.exists() is True (a socket).    *)
(* is_file()/is_dir() follow symbolic links, so a link to a file or to a   *)
(* directory is seen by the program as that file or directory.             *)
(***************************************************************************)
EXTENDS Naturals, Sequences, FiniteSets, TLC

VARIABLES
    fs,        \* the filesystem now
    fsInit,    \* the filesystem before the first run
    pre,       \* the filesystem when the current run of copy() started
    args,      \* the arguments of copy(): src, dest, override, recursive, interactive
    pc,        \* "start", "walk", "mkdir", "asked", "done", "error"
    err,       \* the exception that ended the run, "none" otherwise
    root,      \* copy()'s local dest after line 81 (the destination root)
    stack,     \* the active copy_directory() calls, innermost last
    cur,       \* the name of the child being processed between two sub-steps
    answer,    \* the value input() returned, until line 47 has used it
    events,    \* the logger calls of the current run, in order
    runs       \* number of the current run

vars == <<fs, fsInit, pre, args, pc, err, root, stack, cur, answer, events, runs>>

(* Bounds *)
MaxDepth == 3
MaxRuns == 2

(***************************************************************************)
(* Filesystem                                                              *)
(***************************************************************************)
Dir == [kind |-> "dir", data |-> ""]
Other == [kind |-> "other", data |-> ""]
File(c) == [kind |-> "file", data |-> c]
NoPath == <<"?">>
NoAnswer == <<"?">>
EmptyFs == [p \in {} |-> Dir]

Exists(f, p) == p \in DOMAIN f
IsDir(f, p) == p \in DOMAIN f /\ f[p].kind = "dir"
IsFile(f, p) == p \in DOMAIN f /\ f[p].kind = "file"
Parent(p) == SubSeq(p, 1, Len(p) - 1)
Name(p) == p[Len(p)]
Join(p, n) == Append(p, n)
IsPrefix(p, q) == Len(p) <= Len(q) /\ SubSeq(q, 1, Len(p)) = p
Children(f, p) == {q \in DOMAIN f : Len(q) = Len(p) + 1 /\ IsPrefix(p, q)}
\* Path.iterdir(): the names in the directory when the loop starts
Iterdir(f, p) == {Name(q) : q \in Children(f, p)}

Ok(f) == [fs |-> f, err |-> "none"]
Raise(f, e) == [fs |-> f, err |-> e]

\* faulty variant: the directory is never created
MkdirNoCreate(f, p) == Ok(f)

\* Path.mkdir(exist_ok=True)
Mkdir(f, p) ==
    IF IsDir(f, p) THEN Ok(f)
    ELSE IF Exists(f, p) THEN Raise(f, "FileExistsError")
    ELSE IF ~IsDir(f, Parent(p)) THEN Raise(f, "FileNotFoundError")
    ELSE Ok((p :> Dir) @@ f)

\* Path.touch()
Touch(f, p) ==
    IF Exists(f, p) THEN Ok(f)
    ELSE IF ~IsDir(f, Parent(p)) THEN Raise(f, "FileNotFoundError")
    ELSE Ok((p :> File("")) @@ f)

\* dump(): open(src, 'rb'), then open(dest, 'wb') truncates dest, then the
\* bytes read from src are written to dest
Dump(f, s, d) ==
    IF IsDir(f, d) THEN Raise(f, "IsADirectoryError")
    ELSE IF ~IsFile(f, d) THEN Raise(f, "OSError")
    ELSE LET truncated == (d :> File("")) @@ f
         IN  Ok((d :> File(truncated[s].data)) @@ truncated)

TouchDump(f, s, d) ==
    LET t == Touch(f, d) IN IF t.err # "none" THEN t ELSE Dump(t.fs, s, d)

(***************************************************************************)
(* Logger                                                                  *)
(***************************************************************************)
Event(k, s, d) == [kind |-> k, src |-> s, dest |-> d]
Log(k, s, d) == Append(events, Event(k, s, d))

(***************************************************************************)
(* Prompt answers: strings as sequences of characters                      *)
(***************************************************************************)
Answers ==
    { <<>>, <<"y">>, <<"Y", "E", "S">>, <<"N", "o">>, <<"n", "a", "y">> }
LowerChar(c) ==
    CASE c = "Y" -> "y" [] c = "E" -> "e" [] c = "S" -> "s" [] c = "N" -> "n"
      [] OTHER -> c
Lower(s) == [i \in 1..Len(s) |-> LowerChar(s[i])]
\* faulty variant: the answer must be exactly y or yes
AffirmativeExact(a) == Lower(a) \in { <<"y">>, <<"y", "e", "s">> }

\* 'y' in input(...).lower()
Affirmative(a) == \E i \in 1..Len(Lower(a)) : Lower(a)[i] = "y"

\* faulty variant: an existing file is never overwritten outside the prompt
ConfirmedNeverOverwrite(destIsFile, a) ==
    IF destIsFile
    THEN IF args.interactive THEN Affirmative(a) ELSE FALSE
    ELSE TRUE

\* faulty variant: the test of line 48 is lost
ConfirmedAlways(destIsFile, a) ==
    IF destIsFile
    THEN IF args.interactive THEN Affirmative(a) ELSE TRUE
    ELSE TRUE

\* lines 44-49: the value of confirmed
Confirmed(destIsFile, a) ==
    IF destIsFile
    THEN IF args.interactive THEN Affirmative(a) ELSE args.override
    ELSE TRUE

(***************************************************************************)
(* Initial filesystems and arguments                                       *)
(***************************************************************************)
S == <<"s">>
T == <<"t">>
Base == (<<>> :> Dir)

SrcDirTrees ==
    { (S :> Dir) @@ f @@ d @@ o :
        f \in { EmptyFs, (<<"s", "f">> :> File("A")) },
        d \in { EmptyFs, (<<"s", "d">> :> Dir),
                (<<"s", "d">> :> Dir) @@ (<<"s", "d", "f">> :> File("B")) },
        o \in { EmptyFs, (<<"s", "o">> :> Other) } }
SrcTrees == { (S :> File("A")), (S :> Other) } \cup SrcDirTrees

NestedTrees ==
    { (<<"t", "s">> :> Dir) @@ f @@ d :
        f \in { EmptyFs, (<<"t", "s", "f">> :> File("X")), (<<"t", "s", "f">> :> Dir) },
        d \in { EmptyFs, (<<"t", "s", "d">> :> File("X")), (<<"t", "s", "d">> :> Dir),
                (<<"t", "s", "d">> :> Dir) @@ (<<"t", "s", "d", "f">> :> File("Y")) } }
DstTrees ==
    { EmptyFs, (T :> File("X")), (T :> Other) }
    \cup { (T :> Dir) @@ n :
             n \in { EmptyFs, (<<"t", "s">> :> File("X")) } \cup NestedTrees }

\* a destination whose parent directory does not exist
OrphanDest == <<"u", "x">>

\* destinations that overlap the source tree, and the source trees used with them
InsideDests == { <<"s", "n">>, S, <<>> }
InsideSrcTrees ==
    { (S :> Dir) @@ f @@ d :
        f \in { EmptyFs, (<<"s", "f">> :> File("A")) },
        d \in { EmptyFs, (<<"s", "d">> :> Dir) } }

OverlapCases ==
    { [tree |-> st, dest |-> d] : st \in InsideSrcTrees, d \in InsideDests }
    \cup { [tree |-> (S :> Dir) @@ (<<"s", "d">> :> Dir) @@ (<<"s", "d", "s">> :> Dir),
            dest |-> <<"s", "d">>] }

Flags ==
    { [override |-> o, recursive |-> r, interactive |-> i] :
        o \in BOOLEAN, r \in BOOLEAN, i \in BOOLEAN }
\* -o and -i are a mutually exclusive group
CliFlags == { fl \in Flags : ~(fl.override /\ fl.interactive) }

MkArgs(s, d, fl) ==
    [src |-> s, dest |-> d, override |-> fl.override,
     recursive |-> fl.recursive, interactive |-> fl.interactive]

Init ==
    /\ \E fl \in CliFlags :
         \/ \E st \in SrcTrees, dt \in DstTrees :
              /\ fs = Base @@ st @@ dt
              /\ args = MkArgs(S, T, fl)
         \/ \E st \in SrcTrees :
              /\ fs = Base @@ st
              /\ args = MkArgs(S, OrphanDest, fl)
         \/ \E c \in OverlapCases :
              /\ fs = Base @@ c.tree
              /\ args = MkArgs(S, c.dest, fl)
    /\ fsInit = fs
    /\ pre = fs
    /\ pc = "start"
    /\ err = "none"
    /\ root = NoPath
    /\ stack = <<>>
    /\ cur = ""
    /\ answer = NoAnswer
    /\ events = <<>>
    /\ runs = 1

(***************************************************************************)
(* copy() and copy_file()                                                  *)
(***************************************************************************)
Finish(r) ==
    /\ fs' = r.fs
    /\ err' = r.err
    /\ pc' = IF r.err = "none" THEN "done" ELSE "error"

\* copy_file(): line 62-63
EffectiveDest(f, s, d) == IF IsDir(f, d) THEN Join(d, Name(s)) ELSE d

\* copy_file(): line 64
OverwriteRefused(f, d) == IsFile(f, d) /\ ~args.override

\* copy(), source is a file: copy_file(src, dest, override)
CopyFileTop ==
    /\ pc = "start"
    /\ IsFile(fs, args.src)
    /\ LET d == EffectiveDest(fs, args.src, args.dest)
       IN  IF OverwriteRefused(fs, d)
           THEN /\ Finish(Raise(fs, "OverwriteDenied"))
                /\ UNCHANGED events
           ELSE /\ Finish(TouchDump(fs, args.src, d))
                /\ events' = Log("Copied", args.src, d)
    /\ UNCHANGED <<fsInit, pre, args, root, stack, cur, answer, runs>>

\* faulty variant: the test of line 78 is lost
DirPrecheckNoFlag(f, d, recursive) ==
    IF ~IsDir(f, d) /\ Exists(f, d) THEN "NotADirectory" ELSE "none"

\* faulty variant: the tests of lines 76 and 78 change places
DirPrecheckFlagFirst(f, d, recursive) ==
    IF ~recursive THEN "RecursiveFlagRequired"
    ELSE IF ~IsDir(f, d) /\ Exists(f, d) THEN "NotADirectory"
    ELSE "none"

\* copy(): lines 75-79, the checks before anything is created
DirPrecheck(f, d, recursive) ==
    IF ~IsDir(f, d) /\ Exists(f, d) THEN "NotADirectory"
    ELSE IF ~recursive THEN "RecursiveFlagRequired"
    ELSE "none"

\* faulty variant: the copy is never nested under an existing directory
DestRootNoNest(f, s, d) == d

\* copy(): lines 80-81
DestRoot(f, s, d) == IF IsDir(f, d) THEN Join(d, Name(s)) ELSE d

Frame(f, s, d) == [src |-> s, dest |-> d, todo |-> Iterdir(f, s)]

\* copy(), source is a directory
CopyDirTop ==
    /\ pc = "start"
    /\ ~IsFile(fs, args.src)
    /\ IsDir(fs, args.src)
    /\ LET e == DirPrecheck(fs, args.dest, args.recursive)
           r == DestRoot(fs, args.src, args.dest)
           m == Mkdir(fs, r)
       IN  IF e # "none"
           THEN /\ Finish(Raise(fs, e))
                /\ UNCHANGED <<root, stack>>
           ELSE /\ root' = r
                /\ fs' = m.fs
                /\ err' = m.err
                /\ IF m.err # "none"
                   THEN pc' = "error" /\ UNCHANGED stack
                   ELSE pc' = "walk" /\ stack' = <<Frame(m.fs, args.src, r)>>
    /\ UNCHANGED <<fsInit, pre, args, cur, answer, events, runs>>

\* copy(), source is neither: line 85
CopyUnsupported ==
    /\ pc = "start"
    /\ ~IsFile(fs, args.src)
    /\ ~IsDir(fs, args.src)
    /\ Finish(Raise(fs, "UnsupportedFileType"))
    /\ UNCHANGED <<fsInit, pre, args, root, stack, cur, answer, events, runs>>

(***************************************************************************)
(* copy_directory()                                                        *)
(***************************************************************************)
Top == stack[Len(stack)]
SrcChild(n) == Join(Top.src, n)
DestChild(n) == Join(Top.dest, n)
Taken(n) == [stack EXCEPT ![Len(stack)].todo = @ \ {n}]

\* lines 39-40: the child is a directory, the message is logged
StepDirLog ==
    /\ pc = "walk"
    /\ \E n \in Top.todo :
         /\ IsDir(fs, SrcChild(n))
         /\ events' = Log("Recursed", SrcChild(n), DestChild(n))
         /\ cur' = n
         /\ stack' = Taken(n)
    /\ pc' = "mkdir"
    /\ UNCHANGED <<fs, fsInit, pre, args, err, root, answer, runs>>

\* lines 41-42: mkdir, then the recursive call
StepDirEnter ==
    /\ pc = "mkdir"
    /\ LET m == Mkdir(fs, DestChild(cur))
       IN  /\ fs' = m.fs
           /\ IF m.err # "none"
              THEN /\ err' = m.err
                   /\ pc' = "error"
                   /\ UNCHANGED stack
              ELSE IF Len(stack) >= MaxDepth
              THEN /\ err' = "RecursionError"
                   /\ pc' = "error"
                   /\ UNCHANGED stack
              ELSE /\ err' = "none"
                   /\ pc' = "walk"
                   /\ stack' = Append(stack, Frame(m.fs, SrcChild(cur), DestChild(cur)))
    /\ cur' = ""
    /\ UNCHANGED <<fsInit, pre, args, root, answer, events, runs>>

\* lines 51-56: copy or skip one file
FileOutcome(confirmed, s, d) ==
    IF confirmed
    THEN LET r == TouchDump(fs, s, d)
         IN  /\ events' = Log("Copied", s, d)
             /\ fs' = r.fs
             /\ err' = r.err
             /\ pc' = IF r.err = "none" THEN "walk" ELSE "error"
    ELSE /\ events' = Log("SkippedExists", s, d)
         /\ pc' = "walk"
         /\ UNCHANGED <<fs, err>>

\* lines 43-56 when input() is not called
StepFile ==
    /\ pc = "walk"
    /\ \E n \in Top.todo :
         /\ ~IsDir(fs, SrcChild(n))
         /\ IsFile(fs, SrcChild(n))
         /\ ~(IsFile(fs, DestChild(n)) /\ args.interactive)
         /\ FileOutcome(Confirmed(IsFile(fs, DestChild(n)), NoAnswer),
                        SrcChild(n), DestChild(n))
         /\ stack' = Taken(n)
    /\ UNCHANGED <<fsInit, pre, args, root, cur, answer, runs>>

\* lines 43-47: input() is called and returns
StepAsk ==
    /\ pc = "walk"
    /\ \E n \in Top.todo :
         /\ ~IsDir(fs, SrcChild(n))
         /\ IsFile(fs, SrcChild(n))
         /\ IsFile(fs, DestChild(n))
         /\ args.interactive
         /\ events' = Log("Prompt", SrcChild(n), DestChild(n))
         /\ cur' = n
         /\ stack' = Taken(n)
    /\ \E a \in Answers : answer' = a
    /\ pc' = "asked"
    /\ UNCHANGED <<fs, fsInit, pre, args, err, root, runs>>

\* lines 47-56 after input() returned
StepAnswered ==
    /\ pc = "asked"
    /\ FileOutcome(Confirmed(TRUE, answer), SrcChild(cur), DestChild(cur))
    /\ cur' = ""
    /\ answer' = NoAnswer
    /\ UNCHANGED <<fsInit, pre, args, root, stack, runs>>

\* faulty variant: an unsupported entry raises
StepOtherRaises ==
    /\ pc = "walk"
    /\ \E n \in Top.todo :
         /\ ~IsDir(fs, SrcChild(n))
         /\ ~IsFile(fs, SrcChild(n))
         /\ events' = Log("SkippedUnsupportedType", SrcChild(n), DestChild(n))
         /\ stack' = Taken(n)
    /\ pc' = "error"
    /\ err' = "UnsupportedFileType"
    /\ UNCHANGED <<fs, fsInit, pre, args, root, cur, answer, runs>>

\* lines 57-58
StepOther ==
    /\ pc = "walk"
    /\ \E n \in Top.todo :
         /\ ~IsDir(fs, SrcChild(n))
         /\ ~IsFile(fs, SrcChild(n))
         /\ events' = Log("SkippedUnsupportedType", SrcChild(n), DestChild(n))
         /\ stack' = Taken(n)
    /\ UNCHANGED <<fs, fsInit, pre, args, pc, err, root, cur, answer, runs>>

\* the for loop of line 37 is exhausted: copy_directory() returns
Return ==
    /\ pc = "walk"
    /\ Top.todo = {}
    /\ stack' = SubSeq(stack, 1, Len(stack) - 1)
    /\ pc' = IF Len(stack) = 1 THEN "done" ELSE "walk"
    /\ UNCHANGED <<fs, fsInit, pre, args, err, root, cur, answer, events, runs>>

\* main() is run again with the same command line (not after the walk has
\* reached the depth bound: the tree it left is as deep as the model goes)
Rerun ==
    /\ pc \in {"done", "error"}
    /\ err # "RecursionError"
    /\ runs < MaxRuns
    /\ runs' = runs + 1
    /\ pre' = fs
    /\ pc' = "start"
    /\ err' = "none"
    /\ root' = NoPath
    /\ stack' = <<>>
    /\ events' = <<>>
    /\ UNCHANGED <<fs, fsInit, args, cur, answer>>

Next ==
    \/ CopyFileTop
    \/ CopyDirTop
    \/ CopyUnsupported
    \/ StepDirLog
    \/ StepDirEnter
    \/ StepFile
    \/ StepAsk
    \/ StepAnswered
    \/ StepOther
    \/ Return
    \/ Rerun

Spec == Init /\ [][Next]_vars

(***************************************************************************)
(* Vocabulary of the properties                                            *)
(***************************************************************************)
Finished == pc \in {"done", "error"}
Deny == ~args.override /\ ~args.interactive
Under(p, q) == IsPrefix(p, q) /\ p # q
Image(r, p) == r \o SubSeq(p, Len(args.src) + 1, Len(p))
SrcEntries(f) == {p \in DOMAIN f : Under(args.src, p)}
SrcFiles(f) == {p \in SrcEntries(f) : IsFile(f, p)}
SrcDirs(f) == {p \in SrcEntries(f) : IsDir(f, p)}
SrcOthers(f) == SrcEntries(f) \ (SrcFiles(f) \cup SrcDirs(f))
EventIdx(kinds, p) ==
    {i \in 1..Len(events) : events[i].kind \in kinds /\ events[i].src = p}
NoEvent(kinds) == \A i \in 1..Len(events) : events[i].kind \notin kinds
NestedRoot == Join(args.dest, Name(args.src))
ExpectedRoot(f) == IF IsDir(f, args.dest) THEN NestedRoot ELSE args.dest
SameAt(f, g, p) ==
    /\ p \in DOMAIN f <=> p \in DOMAIN g
    /\ p \in DOMAIN f => f[p] = g[p]
FilesKept(f, g) == \A p \in DOMAIN f : IsFile(f, p) => SameAt(f, g, p)
\* every file and directory of the source tree of f is under r in g
Mirrors(f, g, r) ==
    /\ \A p \in SrcFiles(f) : IsFile(g, Image(r, p)) /\ g[Image(r, p)].data = f[p].data
    /\ \A p \in SrcDirs(f) : IsDir(g, Image(r, p))
DirSource == IsDir(pre, args.src)
DestNotDir == Exists(pre, args.dest) /\ ~IsDir(pre, args.dest)
\* the destination argument is neither inside the source tree nor its parent
Apart == ~IsPrefix(args.src, args.dest) /\ args.dest # Parent(args.src)

(***************************************************************************)
(* C1                                                                      *)
(***************************************************************************)
\* C1 as stated: a directory source without recursive always ends with
\* RecursiveFlagRequired, whatever dest is, and the filesystem is untouched.
C1_AlwaysRecursiveFlagRequired ==
    (DirSource /\ ~args.recursive /\ Finished)
        => (err = "RecursiveFlagRequired" /\ fs = pre)

\* C1 amended: a directory source without recursive never gets past the
\* checks: the run ends with NotADirectory when dest exists and is not a
\* directory, with RecursiveFlagRequired otherwise, and the filesystem and
\* the log are untouched.
C1_NoRecursiveFlag ==
    (DirSource /\ ~args.recursive)
        => /\ pc \in {"start", "error"}
           /\ fs = pre
           /\ events = <<>>
           /\ pc = "error" =>
                err = IF DestNotDir THEN "NotADirectory" ELSE "RecursiveFlagRequired"

C1_Witness ==
    /\ DirSource /\ ~args.recursive /\ IsDir(pre, args.dest)
    /\ pc = "error" /\ err = "RecursiveFlagRequired"

(***************************************************************************)
(* C2                                                                      *)
(***************************************************************************)
\* C2: a directory source and a dest that exists and is not a directory:
\* the run ends with NotADirectory, whatever the flags, and nothing has been
\* created, written or logged.
C2_NotADirectory ==
    (DirSource /\ DestNotDir)
        => /\ pc \in {"start", "error"}
           /\ fs = pre
           /\ events = <<>>
           /\ root = NoPath
           /\ pc = "error" => err = "NotADirectory"

C2_Witness ==
    /\ DirSource /\ DestNotDir /\ ~args.recursive
    /\ pc = "error" /\ err = "NotADirectory"

(***************************************************************************)
(* C3                                                                      *)
(***************************************************************************)
\* C3: a top-level file copy onto an existing regular file ends with
\* OverwriteDenied exactly under DENY; under ASK it prompts instead; when it
\* is refused the filesystem is unchanged.
C3_DeniedOnlyUnderDeny ==
    (IsFile(pre, args.src) /\ Finished
       /\ IsFile(pre, EffectiveDest(pre, args.src, args.dest)))
        => /\ (err = "OverwriteDenied") <=> Deny
           /\ args.interactive => EventIdx({"Prompt"}, args.src) # {}
           /\ err = "OverwriteDenied" => fs = pre

(***************************************************************************)
(* C4                                                                      *)
(***************************************************************************)
\* C4 as stated: with FORCE and recursive, a second successful run leaves the
\* tree as the first run left it, also when dest did not exist at first.
C4_SecondRunChangesNothing ==
    (args.override /\ args.recursive /\ IsDir(fsInit, args.src) /\ Apart
       /\ runs = 2 /\ pc = "done")
        => fs = pre

\* C4 amended: with FORCE and recursive, when dest is a directory before the
\* first run (neither inside the source tree nor its parent), every
\* successful run leaves under dest/source.name every source directory and
\* every source file with the source's content, and every successful run
\* after the first changes nothing.
C4_IdempotentUnderExistingDest ==
    (args.override /\ args.recursive /\ IsDir(fsInit, args.src) /\ Apart
       /\ IsDir(fsInit, args.dest) /\ pc = "done")
        => /\ Mirrors(fsInit, fs, NestedRoot)
           /\ runs >= 2 => fs = pre

C4_Witness ==
    /\ args.override /\ args.recursive /\ runs = 2 /\ pc = "done"
    /\ args.dest = T
    /\ IsFile(fsInit, <<"t", "s", "f">>) /\ fsInit[<<"t", "s", "f">>].data = "X"
    /\ IsFile(fs, <<"t", "s", "f">>) /\ fs[<<"t", "s", "f">>].data = "A"
    /\ IsFile(fs, <<"t", "s", "d", "f">>)

(***************************************************************************)
(* C5                                                                      *)
(***************************************************************************)
\* C5: a recursive copy of a directory that succeeds and found no file under
\* its root: the root is dest/source.name when dest was a directory and dest
\* otherwise, it is a directory, every source file is under it with the
\* source's content, and nothing outside the root was created or changed.
C5_RootAndContent ==
    (DirSource /\ pc = "done"
       /\ \A q \in DOMAIN pre : IsPrefix(root, q) => ~IsFile(pre, q))
        => /\ root = ExpectedRoot(pre)
           /\ IsDir(fs, root)
           /\ \A p \in SrcFiles(pre) :
                IsFile(fs, Image(root, p)) /\ fs[Image(root, p)].data = pre[p].data
           /\ \A q \in DOMAIN fs \cup DOMAIN pre :
                ~IsPrefix(root, q) => SameAt(fs, pre, q)

C5_Witness ==
    /\ DirSource /\ pc = "done" /\ IsDir(pre, args.dest) /\ args.dest = T
    /\ ~Exists(pre, <<"t", "s">>)
    /\ IsFile(fs, <<"t", "s", "d", "f">>) /\ fs[<<"t", "s", "d", "f">>].data = "B"
    /\ IsFile(fs, <<"t", "s", "f">>)
    /\ ~Exists(fs, <<"t", "f">>)

(***************************************************************************)
(* C6                                                                      *)
(***************************************************************************)
MirroredFiles == \A p \in SrcFiles(pre) : IsFile(pre, Image(ExpectedRoot(pre), p))
AllSkipped ==
    /\ NoEvent({"Copied", "Prompt"})
    /\ FilesKept(pre, fs)
    /\ pc # "error"
    /\ pc = "done" =>
         \A p \in SrcFiles(pre) : Cardinality(EventIdx({"SkippedExists"}, p)) = 1

\* C6 as stated: DENY, and the destination root holds a regular file for
\* every source file: every file is skipped, none copied, no prompt, no error.
C6_DenySkipsAll ==
    (DirSource /\ args.recursive /\ Deny /\ IsDir(pre, ExpectedRoot(pre))
       /\ MirroredFiles /\ ~Under(args.src, ExpectedRoot(pre)))
        => AllSkipped

\* C6 amended: as stated, provided also that no source directory's place
\* under the root is taken by something that is not a directory (and the
\* root is not inside the source tree).
C6_DenySkipsAllUnobstructed ==
    (DirSource /\ args.recursive /\ Deny /\ IsDir(pre, ExpectedRoot(pre))
       /\ MirroredFiles /\ ~Under(args.src, ExpectedRoot(pre))
       /\ \A p \in SrcDirs(pre) :
            Exists(pre, Image(ExpectedRoot(pre), p))
                => IsDir(pre, Image(ExpectedRoot(pre), p)))
        => AllSkipped

C6_Witness ==
    /\ DirSource /\ args.recursive /\ Deny /\ pc = "done" /\ args.dest = T
    /\ IsFile(pre, <<"s", "f">>) /\ IsFile(pre, <<"s", "d", "f">>)
    /\ IsFile(pre, <<"t", "s", "f">>) /\ IsFile(pre, <<"t", "s", "d", "f">>)
    /\ Cardinality(EventIdx({"SkippedExists"}, <<"s", "d", "f">>)) = 1
    /\ fs[<<"t", "s", "d", "f">>].data = "Y"

(***************************************************************************)
(* C7                                                                      *)
(***************************************************************************)
Processed(p) ==
    IF IsDir(pre, p) THEN Cardinality(EventIdx({"Recursed"}, p)) = 1
    ELSE IF IsFile(pre, p)
    THEN Cardinality(EventIdx({"Copied", "SkippedExists"}, p)) = 1
    ELSE Cardinality(EventIdx({"SkippedUnsupportedType"}, p)) = 1
Siblings(f, o) == {q \in DOMAIN f : Len(q) = Len(o) /\ Parent(q) = Parent(o) /\ q # o}

LastOf(ev) == ev[Len(ev)]
Logged(k) == events' # events /\ events' # <<>> /\ LastOf(events').kind \in k
YesExact(a) == Lower(a) \in { <<"y">>, <<"y", "e", "s">> }
YesContains(a) == \E i \in 1..Len(a) : LowerChar(a[i]) = "y"

\* the prompt is issued only for a source file whose destination child is a
\* regular file, at most once for it, and every such file gets it
PromptDiscipline ==
    /\ Logged({"Prompt"}) =>
         /\ args.interactive /\ pc = "walk" /\ pc' = "asked"
         /\ IsFile(fs, LastOf(events').src) /\ IsFile(fs, LastOf(events').dest)
         /\ ~IsDir(fs, LastOf(events').src)
         /\ EventIdx({"Prompt"}, LastOf(events').src) = {}
    /\ (pc = "walk" /\ args.interactive /\ Logged({"Copied", "SkippedExists"}))
          => ~IsFile(fs, LastOf(events').dest)

\* what the step after the prompt does, for an answer that counts as yes or not
AnswerRule(yes) ==
    pc = "asked" =>
        /\ LastOf(events').src = SrcChild(cur)
        /\ LastOf(events').dest = DestChild(cur)
        /\ pc' = "walk" /\ stack' = stack
        /\ IF yes
           THEN /\ Logged({"Copied"})
                /\ IsFile(fs', DestChild(cur))
                /\ fs'[DestChild(cur)].data =
                      IF SrcChild(cur) = DestChild(cur) THEN ""
                      ELSE fs[SrcChild(cur)].data
           ELSE /\ Logged({"SkippedExists"})
                /\ fs' = fs

\* C8 as stated: the prompted file is overwritten exactly when the answer,
\* lower-cased, is y or yes.
C8_YesOrYOnly == [][PromptDiscipline /\ AnswerRule(YesExact(answer))]_vars

\* C8 amended: the prompted file is overwritten exactly when the answer,
\* lower-cased, contains the letter y; otherwise the filesystem is unchanged
\* and the walk goes on; the prompt is issued once for each source file whose
\* destination child is a regular file and for nothing else.
C8_AnswerContainsY == [][PromptDiscipline /\ AnswerRule(YesContains(answer))]_vars

C8_Witness ==
    /\ pc = "done" /\ args.interactive
    /\ \E i \in 1..Len(events), j \in 1..Len(events) :
         /\ i + 1 <= Len(events) /\ j + 1 <= Len(events)
         /\ events[i].kind = "Prompt" /\ events[i + 1].kind = "Copied"
         /\ events[j].kind = "Prompt" /\ events[j + 1].kind = "SkippedExists"
    /\ Cardinality(EventIdx({"Prompt"}, <<"s", "f">>)) = 1

(***************************************************************************)
(* C9                                                                      *)
(***************************************************************************)
\* one Recursed event at most for a directory, one for each source
\* subdirectory when the walk completes; the events of the entries inside a
\* directory come after its Recursed event and before the events of what is
\* enumerated after it; every active walk has an existing directory as dest
PreOrder ==
    /\ \A i \in 1..Len(events) :
         events[i].kind = "Recursed" =>
            /\ EventIdx({"Recursed"}, events[i].src) = {i}
            /\ \A j \in 1..Len(events) : Under(events[i].src, events[j].src) => j > i
            /\ \A j \in 1..Len(events), k \in 1..Len(events) :
                 (i < j /\ j < k /\ ~Under(events[i].src, events[j].src))
                    => ~Under(events[i].src, events[k].src)
    /\ pc = "done" => \A c \in SrcDirs(pre) : Cardinality(EventIdx({"Recursed"}, c)) = 1
    /\ \A k \in 1..Len(stack) : IsDir(fs, stack[k].dest)

\* C9 as stated: when the Recursed event is emitted its destination has been
\* ensured to exist as a directory.
C9_RecursedAfterMkdir ==
    /\ \A i \in 1..Len(events) :
         events[i].kind = "Recursed" => IsDir(fs, events[i].dest)
    /\ PreOrder

\* C9 amended: the Recursed event is emitted just before its destination is
\* ensured to exist: the destination of every Recursed event is a directory
\* except that of the last event while its mkdir is pending or has failed.
C9_RecursedBeforeMkdir ==
    /\ \A i \in 1..Len(events) :
         (events[i].kind = "Recursed"
            /\ ~(i = Len(events) /\ pc \in {"mkdir", "error"}))
            => IsDir(fs, events[i].dest)
    /\ pc = "mkdir" =>
         /\ LastOf(events) = Event("Recursed", SrcChild(cur), DestChild(cur))
         /\ SameAt(fs, pre, DestChild(cur)) \/ IsDir(fs, DestChild(cur))
    /\ PreOrder

C9_Witness ==
    /\ pc = "done" /\ ~Exists(pre, <<"t", "s", "d">>)
    /\ \E i \in 1..Len(events) :
         /\ i + 2 <= Len(events)
         /\ events[i] = Event("Recursed", <<"s", "d">>, <<"t", "s", "d">>)
         /\ events[i + 1].src = <<"s", "d", "f">>
         /\ events[i + 2].src \in { <<"s", "f">>, <<"s", "o">> }

(***************************************************************************)
(* C10                                                                     *)
(***************************************************************************)
\* C10: the walk only descends into directories that existed when the run
\* started, never into one it created itself.
C10_VisitsOnlyInitialEntries ==
    \A i \in 1..Len(stack) : IsDir(pre, stack[i].src)
====
